---- MODULE Spec2Model ----
(***************************************************************************)
(* A model of the lss-cfar repository:                                     *)
(*   - src/model.py: krylov, triangular_toeplitz_multiply, the bilinear    *)
(*     discretisation of LegTTransitionDense, the kernel cache of          *)
(*     StateSpace.forward and the threshold step of LSSLModel.forward;     *)
(*   - src/yolov8_sam/detect_multi_object_SAM.py: the mask loop and the    *)
(*     two label files it writes.                                          *)
(* Tensor entries are exact rationals <<n, d>> (d > 0, lowest terms), so   *)
(* that solves, products and comparisons are decided exactly; floating     *)
(* point rounding is outside the model.                                    *)
(***************************************************************************)
EXTENDS Integers, Sequences, FiniteSets, TLC

(***************************************************************************)
(* Bounds of the model.                                                    *)
(***************************************************************************)
MaxL == 6
MaxLen == 5
H == 1
MaxCalls == 3
MaxLoads == 1
MaxMasks == 2
MaxContours == 2
MaxImg == 4
RowLen == 2
MaxN == 3

(***************************************************************************)
(* Exact rational arithmetic (the tensors' scalar field).                  *)
(***************************************************************************)
Abs(n) == IF n < 0 THEN -n ELSE n

RECURSIVE GCD(_, _)
GCD(a, b) == IF b = 0 THEN a ELSE GCD(b, a % b)

Norm(n, d) ==
    LET g == GCD(Abs(n), Abs(d))
        s == IF d < 0 THEN -1 ELSE 1
    IN  <<(s * n) \div g, (s * d) \div g>>

RInt(n) == <<n, 1>>
RZero == RInt(0)
ROne == RInt(1)
RAdd(p, q) == Norm(p[1] * q[2] + q[1] * p[2], p[2] * q[2])
RSub(p, q) == Norm(p[1] * q[2] - q[1] * p[2], p[2] * q[2])
RMul(p, q) == Norm(p[1] * q[1], p[2] * q[2])
RDiv(p, q) == Norm(p[1] * q[2], p[2] * q[1])
RGeq(p, q) == p[1] * q[2] >= q[1] * p[2]
RLt(p, q) == p[1] * q[2] < q[1] * p[2]

(***************************************************************************)
(* Dense tensors: a vector is a sequence of rationals, a matrix a sequence *)
(* of rows.  A (N, l) tensor x of krylov is N rows of l columns.           *)
(***************************************************************************)
\* a tensor axis built by a function constructor, as the tuple of its entries
Dense(f) == f \o <<>>

Rows(M) == Len(M)
Cols(M) == IF Len(M) = 0 THEN 0 ELSE Len(M[1])

RECURSIVE RSum(_, _, _)
RSum(f, lo, hi) == IF lo > hi THEN RZero ELSE RAdd(f[lo], RSum(f, lo + 1, hi))

\* A @ X for A of shape (n, m) and X of shape (m, k)
MatMul(A, X) ==
    Dense([i \in 1..Rows(A) |->
        Dense([j \in 1..Cols(X) |->
            RSum([t \in 1..Rows(X) |-> RMul(A[i][t], X[t][j])], 1, Rows(X))])])

\* b.unsqueeze(-1): a vector of N entries as a (N, 1) tensor
Unsqueeze(b) == Dense([i \in 1..Len(b) |-> <<b[i]>>])

\* x[..., :k] with Python's slice rules (negative k counts from the end)
SliceTo(x, k) ==
    Dense([i \in 1..Rows(x) |->
        LET n == Len(x[i])
            e == IF k < 0 THEN (IF n + k < 0 THEN 0 ELSE n + k)
                 ELSE IF k > n THEN n ELSE k
        IN  SubSeq(x[i], 1, e)])

\* torch.cat([x, y], dim=-1)
CatCols(x, y) == Dense([i \in 1..Rows(x) |-> x[i] \o y[i]])

\* column j (0-based, as in the source) of a (N, l) tensor, as a vector
Column(x, j) == Dense([i \in 1..Rows(x) |-> x[i][j + 1]])

(***************************************************************************)
(* krylov(L, A, b): src/model.py 19-41.                                    *)
(* KrylovBody is one pass through the body of the while loop on the locals *)
(* [x, A_, done]; krylov runs the loop to its end and then the assertion.  *)
(***************************************************************************)
KrylovStart(Lq, Aq, bq) == [x |-> Unsqueeze(bq), A_ |-> Aq, done |-> (Lq = 1)]

\* faulty variant: the last doubling step is not truncated to L - l columns
KrylovBodyNoTruncate(Lq, s) ==
    LET l == Cols(s.x)
        last == Lq - l <= l
        xn == MatMul(s.A_, s.x)
    IN  [x |-> CatCols(s.x, xn),
         A_ |-> IF ~last THEN MatMul(s.A_, s.A_) ELSE s.A_,
         done |-> last]

\* faulty variant: the loop stops one doubling early (L - l <= 2l)
KrylovBodyEarlyStop(Lq, s) ==
    LET l == Cols(s.x)
        last == Lq - l <= 2 * l
        xs == IF last THEN SliceTo(s.x, Lq - l) ELSE s.x
        xn == MatMul(s.A_, xs)
    IN  [x |-> CatCols(s.x, xn),
         A_ |-> IF ~last THEN MatMul(s.A_, s.A_) ELSE s.A_,
         done |-> last]

KrylovBody(Lq, s) ==
    LET l == Cols(s.x)
        last == Lq - l <= l
        xs == IF last THEN SliceTo(s.x, Lq - l) ELSE s.x
        xn == MatMul(s.A_, xs)
    IN  [x |-> CatCols(s.x, xn),
         A_ |-> IF ~last THEN MatMul(s.A_, s.A_) ELSE s.A_,
         done |-> last]

RECURSIVE KrylovLoop(_, _)
KrylovLoop(Lq, s) ==
    IF s.done THEN s
    ELSE CHOOSE r \in {KrylovLoop(Lq, t) : t \in {KrylovBody(Lq, s)}} : TRUE

\* the outcome of krylov: the tensor returned, or the failed final assertion
krylov(Lq, Aq, bq) ==
    CHOOSE r \in {IF Cols(s.x) = Lq THEN [ok |-> TRUE, val |-> s.x]
                  ELSE [ok |-> FALSE, err |-> "AssertionError"] :
                      s \in {KrylovLoop(Lq, KrylovStart(Lq, Aq, bq))}} : TRUE

Identity(n) ==
    Dense([i \in 1..n |-> Dense([j \in 1..n |-> IF i = j THEN ROne ELSE RZero])])

(***************************************************************************)
(* The HiPPO-LegT transition of order 1: hippo(1) has Q = [0], R = [1],    *)
(* A = -(R R) = [[-1]] and B = R = [1].  (Higher orders have irrational    *)
(* entries sqrt(2q+1) and are outside the rationals.)                      *)
(***************************************************************************)
HippoA == <<<<RInt(-1)>>>>
HippoB == <<ROne>>
TransitionI == Identity(Len(HippoB))

VecAdd(u, v) == Dense([i \in 1..Len(u) |-> RAdd(u[i], v[i])])
VecScale(c, u) == Dense([i \in 1..Len(u) |-> RMul(c, u[i])])
ZeroVec(n) == Dense([i \in 1..n |-> RZero])

\* M with row r and column c removed
Minor(M, r, c) ==
    Dense([i \in 1..(Rows(M) - 1) |->
        Dense([j \in 1..(Rows(M) - 1) |->
            M[IF i < r THEN i ELSE i + 1][IF j < c THEN j ELSE j + 1]])])

RECURSIVE Det(_)
Det(M) ==
    IF Rows(M) = 0 THEN ROne
    ELSE RSum([j \in 1..Rows(M) |->
                 RMul(IF j % 2 = 1 THEN M[1][j] ELSE RSub(RZero, M[1][j]),
                      Det(Minor(M, 1, j)))], 1, Rows(M))

\* M with column c replaced by the vector u
ReplaceColumn(M, c, u) ==
    Dense([i \in 1..Rows(M) |->
        Dense([j \in 1..Rows(M) |-> IF j = c THEN u[i] ELSE M[i][j]])])

\* torch.linalg.solve(M, u): the solution of M x = u, or the error raised
\* for a singular M
LinalgSolve(M, u) ==
    LET d == Det(M)
    IN  IF d = RZero THEN [ok |-> FALSE, err |-> "LinAlgError"]
        ELSE [ok |-> TRUE,
              val |-> Dense([c \in 1..Rows(M) |->
                                RDiv(Det(ReplaceColumn(M, c, u)), d)])]

\* LegTTransitionDense.forward_mult: u + delta * (A @ u)
forward_mult(u, delta) ==
    VecAdd(u, VecScale(delta, Column(MatMul(HippoA, Unsqueeze(u)), 0)))

\* LegTTransitionDense.inverse_mult: (I - delta A)^-1 u by a linear solve
inverse_mult(u, delta) ==
    LET M == Dense([i \in 1..Rows(HippoA) |->
                 Dense([j \in 1..Rows(HippoA) |->
                     RSub(TransitionI[i][j], RMul(delta, HippoA[i][j]))])])
    IN  LinalgSolve(M, u)

\* AdaptiveTransition.bilinear with alpha = 1/2
bilinear(dtq, u, v) ==
    LET alpha == <<1, 2>>
        xf == forward_mult(u, RMul(RSub(ROne, alpha), dtq))
        vB == VecScale(RMul(dtq, v), HippoB)
    IN  inverse_mult(VecAdd(xf, vB), RMul(alpha, dtq))

\* AdaptiveTransition.gbt_A for one timescale: column n of the result is
\* bilinear(dt, e_n, 0); the error of the first failing solve propagates
gbt_A(dtq) ==
    LET n == Len(HippoB)
        cols == [c \in 1..n |-> bilinear(dtq, TransitionI[c], RZero)]
    IN  IF \E c \in 1..n : ~cols[c].ok
        THEN [ok |-> FALSE, err |-> "LinAlgError"]
        ELSE [ok |-> TRUE,
              val |-> Dense([i \in 1..n |-> Dense([c \in 1..n |-> cols[c].val[i]])])]

\* AdaptiveTransition.gbt_B for one timescale: bilinear(dt, 0, 1)
gbt_B(dtq) == bilinear(dtq, ZeroVec(Len(HippoB)), ROne)

(***************************************************************************)
(* StateSpace.forward, lines 228-235: the kernel cache.  A kernel is a     *)
(* sequence over the H features of (N, L) tensors; NoKernel is None.       *)
(***************************************************************************)
NoKernel == <<>>
KernelLen(kq) == Cols(kq[1])

\* faulty variant: re-derive whenever the length differs from the cached one
NeedDeriveOnChange(kq, Lq) == kq = NoKernel \/ Lq # KernelLen(kq)

\* line 229: self.k is None or u.shape[0] > self.k.shape[-1]
NeedDerive(kq, Lq) == kq = NoKernel \/ Lq > KernelLen(kq)

\* the timescales the model draws dt from: dt after __init__ is
\* exp(log_dt) > 0 (lines 210-211); as a registered buffer it can later be
\* replaced by any loaded value, -2 among them, for which I - (dt/2) A is
\* singular
DtAfterInit == {<<1, 10>>, <<1, 2>>}
DtLoadable == DtAfterInit \cup {RInt(-2)}

\* lines 230-232 for one feature of timescale dtq: its (N, L) kernel, or the
\* exception raised on the way
ChannelKernel(dtq, Lq) ==
    CHOOSE r \in {IF ~Ad.ok \/ ~Bd.ok THEN [ok |-> FALSE, err |-> "LinAlgError"]
                  ELSE krylov(Lq, Ad.val, Bd.val) :
                      Ad \in {gbt_A(dtq)}, Bd \in {gbt_B(dtq)}} : TRUE

\* lines 230-232 for the timescales dtv: the new kernel, or the exception
DeriveKernel(dtv, Lq) ==
    LET ks == Dense([h \in 1..Len(dtv) |-> ChannelKernel(dtv[h], Lq)])
    IN  IF \E h \in 1..Len(dtv) : ~ks[h].ok
        THEN [ok |-> FALSE,
              err |-> ks[CHOOSE h \in 1..Len(dtv) : ~ks[h].ok].err]
        ELSE [ok |-> TRUE, val |-> Dense([h \in 1..Len(dtv) |-> ks[h].val])]

\* faulty variant: the cache is cleared before the kernel is derived
KernelAfterDeriveCleared(kq, r) == IF r.ok THEN r.val ELSE NoKernel

\* line 232: self.k is assigned once krylov has returned, and not otherwise
KernelAfterDerive(kq, r) == IF r.ok THEN r.val ELSE kq

\* faulty variant: the cached kernel is handed on whole
KernelSliceWhole(kq, Lq) == kq

\* line 235: self.k[..., :u.shape[0]]
KernelSlice(kq, Lq) == Dense([h \in 1..Len(kq) |-> SliceTo(kq[h], Lq)])

(***************************************************************************)
(* triangular_toeplitz_multiply, lines 9-17.  rfft(x, n=m) trims or        *)
(* zero-pads x to m entries; irfft(rfft(a, m) * rfft(b, m), m) is the      *)
(* circular convolution of length m of a and b (the convolution theorem),  *)
(* which is how the transform pair is modelled.  Entries are integers,     *)
(* indices 0-based as in the source.                                       *)
(***************************************************************************)
RECURSIVE ISum(_, _, _)
ISum(f, lo, hi) == IF lo > hi THEN 0 ELSE f[lo] + ISum(f, lo + 1, hi)

\* F.pad(u, (0, n)): n zeros appended
PadRight(u, n) == u \o [i \in 1..n |-> 0]

\* the input of an FFT of length m: trimmed or zero-padded to m entries
FftInput(u, m) == Dense([i \in 1..m |-> IF i <= Len(u) THEN u[i] ELSE 0])

CircularConv(a, c, m) ==
    LET fa == FftInput(a, m)
        fc == FftInput(c, m)
    IN  Dense([t \in 1..m |->
            ISum([s \in 1..m |-> fa[s] * fc[((t - s) % m) + 1]], 1, m)])

\* faulty variant: the transforms are taken at length n, without the padding
FftLenUnpadded(n) == n

\* n=2*n of lines 13, 14 and 16
FftLen(n) == 2 * n

triangular_toeplitz_multiply(u, v) ==
    LET n == Len(u)
        m == FftLen(n)
        u_expand == PadRight(u, n)
        v_expand == PadRight(v, n)
    IN  SubSeq(CircularConv(u_expand, v_expand, m), 1, n)

(***************************************************************************)
(* The threshold step of LSSLModel.forward, lines 297-303, on one row      *)
(* along the last dimension: gate[i] is sigmoid(mean over hidden) there.   *)
(***************************************************************************)
Gated(gate, x_init) == Dense([i \in 1..Len(x_init) |-> RMul(gate[i], x_init[i])])

RECURSIVE RowMax(_, _)
RowMax(row, n) ==
    IF n = 1 THEN row[1]
    ELSE LET m == RowMax(row, n - 1) IN IF RLt(m, row[n]) THEN row[n] ELSE m

\* torch.where(x >= 0.99 * max_val, x, 0)
ThresholdRow(row) ==
    LET max_val == RowMax(row, Len(row))
        threshold == RMul(<<99, 100>>, max_val)
    IN  Dense([i \in 1..Len(row) |->
            IF RGeq(row[i], threshold) THEN row[i] ELSE RZero])

(***************************************************************************)
(* The detection script, lines 43-102.  A contour is a sequence of pixel   *)
(* points <<x, y>>; a formatted value "{:.6f}" is the integer number of    *)
(* its millionths; a file is the sequence of its lines.                    *)
(***************************************************************************)
Min2(m, n) == IF m < n THEN m ELSE n
Max2(m, n) == IF m < n THEN n ELSE m

RECURSIVE MinCoord(_, _, _)
MinCoord(c, axis, n) ==
    IF n = 1 THEN c[1][axis] ELSE Min2(MinCoord(c, axis, n - 1), c[n][axis])

RECURSIVE MaxCoord(_, _, _)
MaxCoord(c, axis, n) ==
    IF n = 1 THEN c[1][axis] ELSE Max2(MaxCoord(c, axis, n - 1), c[n][axis])

\* cv2.boundingRect: the upright rectangle of the contour's pixels
boundingRect(c) ==
    LET x0 == MinCoord(c, 1, Len(c))
        y0 == MinCoord(c, 2, Len(c))
    IN  [x |-> x0, y |-> y0,
         w |-> MaxCoord(c, 1, Len(c)) - x0 + 1,
         h |-> MaxCoord(c, 2, Len(c)) - y0 + 1]

\* twice cv2.contourArea: the absolute value of the shoelace sum
contourArea2(c) ==
    LET n == Len(c)
        nxt(i) == IF i = n THEN 1 ELSE i + 1
    IN  Abs(ISum([i \in 1..n |->
                    c[i][1] * c[nxt(i)][2] - c[nxt(i)][1] * c[i][2]], 1, n))

\* max(contours, key=cv2.contourArea): the first contour of the largest area
RECURSIVE LargestIndex(_, _)
LargestIndex(cs, n) ==
    IF n = 1 THEN 1
    ELSE LET j == LargestIndex(cs, n - 1)
         IN  IF contourArea2(cs[n]) > contourArea2(cs[j]) THEN n ELSE j

largest_contour(cs) == cs[LargestIndex(cs, Len(cs))]

\* the unit of a value formatted with six decimals
Million == 1000000

\* "{:.6f}".format(n / d) for n >= 0, d > 0, in millionths, ties to even
Fmt6(n, d) ==
    LET q == (n * Million) \div d
        r == (n * Million) % d
    IN  IF 2 * r > d \/ (2 * r = d /\ q % 2 = 1) THEN q + 1 ELSE q

\* faulty variant: image.shape[0] and image.shape[1] are taken the wrong way round
BBoxLineSwapped(c, width, height) ==
    LET r == boundingRect(c)
    IN  [kind |-> "bbox",
         vals |-> <<0, Fmt6(2 * r.x + r.w, 2 * height),
                    Fmt6(2 * r.y + r.h, 2 * width),
                    Fmt6(r.w, height), Fmt6(r.h, width)>>]

\* lines 62-71: "0 cx cy w h" for one contour
BBoxLine(c, width, height) ==
    LET r == boundingRect(c)
    IN  [kind |-> "bbox",
         vals |-> <<0, Fmt6(2 * r.x + r.w, 2 * width),
                    Fmt6(2 * r.y + r.h, 2 * height),
                    Fmt6(r.w, width), Fmt6(r.h, height)>>]

BlankLine == [kind |-> "blank", vals |-> <<>>]

\* lines 59-72: the lines written for the contours cs, each record followed
\* by the empty line of f.write("\n")
RECURSIVE BBoxLines(_, _, _)
BBoxLines(cs, width, height) ==
    IF cs = <<>> THEN <<>>
    ELSE <<BBoxLine(Head(cs), width, height), BlankLine>>
            \o BBoxLines(Tail(cs), width, height)

\* lines 73-99: the flattened contour x0 y0 x1 y1 ..., each x divided by the
\* width and each y by the height
PolygonLine(c, width, height) ==
    [kind |-> "polygon",
     vals |-> Dense([p \in 1..(2 * Len(c)) |->
                 IF p % 2 = 1 THEN Fmt6(c[(p + 1) \div 2][1], width)
                 ELSE Fmt6(c[p \div 2][2], height)])]

\* the contour cv2 reports for a filled upright rectangle of pixels
RectContour(x0, y0, x1, y1) ==
    IF x0 = x1 /\ y0 = y1 THEN <<<<x0, y0>>>>
    ELSE IF x0 = x1 \/ y0 = y1 THEN <<<<x0, y0>>, <<x1, y1>>>>
    ELSE <<<<x0, y0>>, <<x0, y1>>, <<x1, y1>>, <<x1, y0>>>>

\* every such contour inside an image of the given size
RectContours(width, height) ==
    UNION {{RectContour(x0, y0, x1, y1) :
                x1 \in x0..(width - 1), y1 \in y0..(height - 1)} :
            x0 \in 0..(width - 1), y0 \in 0..(height - 1)}

(***************************************************************************)
(* State.                                                                  *)
(***************************************************************************)
VARIABLES
    \* one call of krylov, statement by statement
    L, A, b,          \* the arguments
    x, A_, done,      \* the locals of the loop
    kpc,              \* "loop" | "returned" | "raised"
    iters,            \* passes through the loop body so far
    squarings,        \* executions of A_ = A_ @ A_ so far
    \* one StateSpace layer and the calls of forward made on it
    dt,               \* the buffer dt: one timescale per feature
    k,                \* self.k: NoKernel or the cached kernel
    ncalls, nloads,   \* calls of forward, replacements of dt so far
    callLen,          \* u.shape[0] of the last call (0: no call yet)
    prevLen,          \* u.shape[0] of the call before it
    derived,          \* the last call ran gbt_A, gbt_B and krylov
    outcome,          \* "none" | "returned" | the exception the call raised
    slice,            \* the kernel handed to linear_system_from_krylov
    kBefore,          \* self.k when the last call began
    maxBefore,        \* longest length of a returned call before the last call
    maxReturned,      \* longest length of a returned call so far
    staleDt,          \* dt was replaced after the cached kernel was derived
    \* the detection script and its two files
    imgW, imgH,       \* image.shape[1], image.shape[0]
    nMasks,           \* len(masks) of the current run
    idx,              \* masks processed so far in the current run
    run,              \* "first" | "second" run of the script
    spc,              \* "loop" | "done" | "crashed"
    bboxFile,         \* the lines of BBOX_yolo.txt
    maskFile,         \* the lines of yolomask_format.txt
    runPolys,         \* the polygon line of each object of the current run
    runBoxes,         \* the bounding-box record of each object of the run
    \* one contour normalised as the script's two writers do
    nW, nH, nContour, nBBox, nPoly, npc,
    \* one row through the threshold step of LSSLModel.forward
    tGate, tInit, tRow, tOut, tpc,
    \* one call of triangular_toeplitz_multiply
    zu, zv, zOut, zpc

krylovVars == <<L, A, b, x, A_, done, kpc, iters, squarings>>
layerVars ==
    <<dt, k, ncalls, nloads, callLen, prevLen, derived, outcome, slice,
      kBefore, maxBefore, maxReturned, staleDt>>

scriptVars ==
    <<imgW, imgH, nMasks, idx, run, spc, bboxFile, maskFile, runPolys, runBoxes>>
normVars == <<nW, nH, nContour, nBBox, nPoly, npc>>
threshVars == <<tGate, tInit, tRow, tOut, tpc>>
toepVars == <<zu, zv, zOut, zpc>>

vars == <<krylovVars, layerVars, scriptVars, normVars, threshVars, toepVars>>

\* the parts of the state a specification does not use stay at rest
KrylovIdle ==
    /\ L = 0 /\ A = <<>> /\ b = <<>> /\ x = <<>> /\ A_ = <<>>
    /\ done = TRUE /\ kpc = "idle" /\ iters = 0 /\ squarings = 0

LayerIdle ==
    /\ dt = <<>> /\ k = <<>> /\ ncalls = 0 /\ nloads = 0 /\ callLen = 0
    /\ prevLen = 0 /\ derived = FALSE /\ outcome = "none" /\ slice = <<>>
    /\ kBefore = <<>> /\ maxBefore = 0 /\ maxReturned = 0 /\ staleDt = FALSE

ScriptIdle ==
    /\ imgW = 0 /\ imgH = 0 /\ nMasks = 0 /\ idx = 0 /\ run = "none"
    /\ spc = "idle" /\ bboxFile = <<>> /\ maskFile = <<>>
    /\ runPolys = <<>> /\ runBoxes = <<>>

NormIdle ==
    /\ nW = 0 /\ nH = 0 /\ nContour = <<>> /\ nBBox = <<>> /\ nPoly = <<>>
    /\ npc = "idle"

ThreshIdle ==
    /\ tGate = <<>> /\ tInit = <<>> /\ tRow = <<>> /\ tOut = <<>> /\ tpc = "idle"

ToepIdle == zu = <<>> /\ zv = <<>> /\ zOut = <<>> /\ zpc = "idle"

(***************************************************************************)
(* The krylov call as a state machine.                                     *)
(***************************************************************************)
KrylovEntries == {RInt(-1), RInt(0), RInt(1)}
KrylovMatrices ==
    {<<<<a11, a12>>, <<a21, a22>>>> :
        a11 \in KrylovEntries, a12 \in KrylovEntries,
        a21 \in KrylovEntries, a22 \in KrylovEntries}
KrylovVectors == {<<b1, b2>> : b1 \in KrylovEntries, b2 \in KrylovEntries}

KrylovInit ==
    /\ L \in 1..MaxL
    /\ A \in KrylovMatrices
    /\ b \in KrylovVectors
    /\ x = KrylovStart(L, A, b).x
    /\ A_ = KrylovStart(L, A, b).A_
    /\ done = KrylovStart(L, A, b).done
    /\ kpc = "loop"
    /\ iters = 0
    /\ squarings = 0
    /\ LayerIdle /\ ScriptIdle /\ NormIdle /\ ThreshIdle /\ ToepIdle

\* one pass through the body of `while not done` (lines 26-36)
KrylovIter ==
    /\ kpc = "loop"
    /\ ~done
    /\ LET s == KrylovBody(L, [x |-> x, A_ |-> A_, done |-> done])
       IN  /\ x' = s.x
           /\ A_' = s.A_
           /\ done' = s.done
           /\ squarings' = IF s.done THEN squarings ELSE squarings + 1
    /\ iters' = iters + 1
    /\ UNCHANGED <<L, A, b, kpc>>
    /\ UNCHANGED <<layerVars, scriptVars, normVars, threshVars, toepVars>>

\* the loop is left, the assertion is evaluated and x returned (lines 38-41)
KrylovFinish ==
    /\ kpc = "loop"
    /\ done
    /\ kpc' = IF Cols(x) = L THEN "returned" ELSE "raised"
    /\ UNCHANGED <<L, A, b, x, A_, done, iters, squarings>>
    /\ UNCHANGED <<layerVars, scriptVars, normVars, threshVars, toepVars>>

KrylovNext == KrylovIter \/ KrylovFinish

SpecKrylov == KrylovInit /\ [][KrylovNext]_vars

(***************************************************************************)
(* Reference definitions for the claims about krylov.                      *)
(***************************************************************************)
RECURSIVE MatPow(_, _)
MatPow(M, j) == IF j = 0 THEN Identity(Rows(M)) ELSE MatMul(M, MatPow(M, j - 1))

\* A^j b as a vector
PowTimes(M, j, v) == Column(MatMul(MatPow(M, j), Unsqueeze(v)), 0)

RECURSIVE IsPow2(_)
IsPow2(n) == n = 1 \/ (n > 1 /\ n % 2 = 0 /\ IsPow2(n \div 2))

RECURSIVE CeilLog2(_)
CeilLog2(n) == IF n <= 1 THEN 0 ELSE 1 + CeilLog2((n + 1) \div 2)

\* C1: krylov(L, A, b) returns, for every L >= 1, exactly L columns, column j
\* being A^j b for 0 <= j < L; the final assertion never fails, also when L
\* is not a power of two.
C1_KrylovMatrix ==
    /\ kpc # "raised"
    /\ kpc = "returned" =>
        /\ Cols(x) = L
        /\ \A j \in 0..(L - 1) : Column(x, j) = PowTimes(A, j, b)
        /\ krylov(L, A, b) = [ok |-> TRUE, val |-> x]

C1_Witness ==
    /\ kpc = "returned"
    /\ L = 5
    /\ Cols(x) = 5
    /\ A = <<<<RInt(1), RInt(1)>>, <<RInt(-1), RInt(0)>>>>
    /\ b = <<RInt(1), RInt(0)>>

\* C7: the doubling loop ends after exactly ceil(log2 L) passes (none for
\* L = 1): the pass counter, which every pass raises by one, stays below
\* ceil(log2 L) while the loop runs and equals it once done is set; at the
\* start of every pass the column count l is a power of two and A_ = A^l;
\* A_ is squared on every pass but the last.
C7_LoopShape ==
    /\ (kpc = "loop" /\ ~done) =>
        /\ IsPow2(Cols(x))
        /\ Cols(x) < L
        /\ A_ = MatPow(A, Cols(x))
        /\ iters = CeilLog2(Cols(x))
        /\ squarings = iters
        /\ iters < CeilLog2(L)
    /\ done =>
        /\ iters = CeilLog2(L)
        /\ squarings = IF iters = 0 THEN 0 ELSE iters - 1
    /\ iters <= CeilLog2(L)

C7_Witness == kpc = "returned" /\ L = 5 /\ iters = 3 /\ squarings = 2


(***************************************************************************)
(* One StateSpace layer under a sequence of forward calls.                 *)
(***************************************************************************)
LayerInit ==
    /\ dt \in [1..H -> DtAfterInit]
    /\ k = NoKernel
    /\ ncalls = 0
    /\ nloads = 0
    /\ callLen = 0
    /\ prevLen = 0
    /\ derived = FALSE
    /\ outcome = "none"
    /\ slice = NoKernel
    /\ kBefore = NoKernel
    /\ maxBefore = 0
    /\ maxReturned = 0
    /\ staleDt = FALSE
    /\ KrylovIdle /\ ScriptIdle /\ NormIdle /\ ThreshIdle /\ ToepIdle

\* forward(u) for an input of Lq >= 1 steps, up to the convolution
Forward(Lq) ==
    /\ ncalls < MaxCalls
    /\ \E need \in {NeedDerive(k, Lq)} :
       \E r \in {IF need THEN DeriveKernel(dt, Lq) ELSE [ok |-> TRUE, val |-> k]} :
       LET kNew == IF need THEN KernelAfterDerive(k, r) ELSE k
       IN  /\ derived' = need
           /\ k' = kNew
           /\ outcome' = IF r.ok THEN "returned" ELSE r.err
           /\ slice' = IF r.ok THEN KernelSlice(kNew, Lq) ELSE NoKernel
           /\ maxReturned' = IF r.ok /\ Lq > maxReturned THEN Lq ELSE maxReturned
           /\ staleDt' = IF need /\ r.ok THEN FALSE ELSE staleDt
    /\ kBefore' = k
    /\ maxBefore' = maxReturned
    /\ prevLen' = callLen
    /\ callLen' = Lq
    /\ ncalls' = ncalls + 1
    /\ UNCHANGED <<dt, nloads>>
    /\ UNCHANGED <<krylovVars, scriptVars, normVars, threshVars, toepVars>>

\* the buffer dt is replaced (load_state_dict on the registered buffer)
LoadDt(v) ==
    /\ nloads < MaxLoads
    /\ v # dt
    /\ dt' = v
    /\ nloads' = nloads + 1
    /\ staleDt' = (staleDt \/ k # NoKernel)
    /\ UNCHANGED <<k, ncalls, callLen, prevLen, derived, outcome, slice,
                   kBefore, maxBefore, maxReturned>>
    /\ UNCHANGED <<krylovVars, scriptVars, normVars, threshVars, toepVars>>

LayerNext ==
    \/ \E Lq \in 1..MaxLen : Forward(Lq)
    \/ \E v \in [1..H -> DtLoadable] : LoadDt(v)

SpecLayer == LayerInit /\ [][LayerNext]_vars

Raised == outcome \notin {"none", "returned"}

C5_RaiseKeepsCache ==
    Raised =>
        /\ derived
        /\ slice = NoKernel
        /\ k = kBefore
        /\ k # NoKernel =>
            /\ Len(k) = H
            /\ \A h \in 1..H : Cols(k[h]) = maxReturned /\ Rows(k[h]) = Len(HippoB)

C5_Witness ==
    /\ outcome = "LinAlgError"
    /\ kBefore # NoKernel
    /\ k = kBefore
    /\ callLen > KernelLen(k)

\* C6: while dt is as it was when the cached kernel was derived, the slice
\* handed to linear_system_from_krylov in a call of length Li has exactly Li
\* columns and equals a fresh krylov(Li, gbt_A(dt), gbt_B(dt)), whatever the
\* lengths of the earlier calls.
C6_SliceIsFreshKernel ==
    (outcome = "returned" /\ ~staleDt) =>
        /\ Len(slice) = H
        /\ \A h \in 1..H : Cols(slice[h]) = callLen
        /\ \E fresh \in {DeriveKernel(dt, callLen)} :
            fresh.ok /\ slice = fresh.val

C6_Witness ==
    /\ outcome = "returned"
    /\ ~staleDt
    /\ ~derived
    /\ ncalls >= 2
    /\ callLen = 3
    /\ KernelLen(k) = 5
    /\ Cols(slice[1]) = 3


(***************************************************************************)
(* The detection script, run twice in the same directory.                  *)
(***************************************************************************)
\* the image of the runs and the contours cv2.findContours may report for
\* a mask: a single pixel, a 2 x 2 block and the whole image
ScriptWidth == 4
ScriptHeight == 3
ScriptContours ==
    {RectContour(0, 0, 0, 0), RectContour(1, 1, 2, 2),
     RectContour(0, 0, ScriptWidth - 1, ScriptHeight - 1)}

RECURSIVE SeqsUpTo(_, _)
SeqsUpTo(S, n) ==
    IF n = 0 THEN {<<>>}
    ELSE LET shorter == SeqsUpTo(S, n - 1)
         IN  shorter \cup {Append(q, e) : q \in shorter, e \in S}

ScriptInit ==
    /\ imgW = ScriptWidth
    /\ imgH = ScriptHeight
    /\ nMasks \in 1..MaxMasks
    /\ idx = 0
    /\ run = "first"
    /\ spc = "loop"
    /\ bboxFile = <<>>
    /\ maskFile = <<>>
    /\ runPolys = <<>>
    /\ runBoxes = <<>>
    /\ KrylovIdle /\ LayerIdle /\ NormIdle /\ ThreshIdle /\ ToepIdle

\* one pass of `for i, mask in enumerate(masks)` (lines 43-102) for a mask
\* whose contours are cs: max() of no contours raises ValueError at line 50;
\* otherwise BBOX_yolo.txt is opened with "w" and rewritten, and one line is
\* appended to yolomask_format.txt, opened with "a"
ProcessMask(cs) ==
    /\ spc = "loop"
    /\ idx < nMasks
    /\ IF cs = <<>>
       THEN /\ spc' = "crashed"
            /\ UNCHANGED <<idx, bboxFile, maskFile, runPolys, runBoxes>>
       ELSE /\ bboxFile' = BBoxLines(cs, imgW, imgH)
            /\ maskFile' =
                 Append(maskFile, PolygonLine(largest_contour(cs), imgW, imgH))
            /\ runPolys' =
                 Append(runPolys, PolygonLine(largest_contour(cs), imgW, imgH))
            /\ runBoxes' =
                 Append(runBoxes, BBoxLine(largest_contour(cs), imgW, imgH))
            /\ idx' = idx + 1
            /\ spc' = "loop"
    /\ UNCHANGED <<imgW, imgH, nMasks, run>>
    /\ UNCHANGED <<krylovVars, layerVars, normVars, threshVars, toepVars>>

\* the loop is exhausted and the script ends
ScriptEnd ==
    /\ spc = "loop"
    /\ idx = nMasks
    /\ spc' = "done"
    /\ UNCHANGED <<imgW, imgH, nMasks, idx, run, bboxFile, maskFile,
                   runPolys, runBoxes>>
    /\ UNCHANGED <<krylovVars, layerVars, normVars, threshVars, toepVars>>

\* the script is started again; the files of the earlier run are still there
ScriptRerun(n) ==
    /\ spc \in {"done", "crashed"}
    /\ run = "first"
    /\ run' = "second"
    /\ nMasks' = n
    /\ idx' = 0
    /\ spc' = "loop"
    /\ runPolys' = <<>>
    /\ runBoxes' = <<>>
    /\ UNCHANGED <<imgW, imgH, bboxFile, maskFile>>
    /\ UNCHANGED <<krylovVars, layerVars, normVars, threshVars, toepVars>>

ScriptNext ==
    \/ \E cs \in SeqsUpTo(ScriptContours, MaxContours) : ProcessMask(cs)
    \/ ScriptEnd
    \/ \E n \in 1..MaxMasks : ScriptRerun(n)

SpecScript == ScriptInit /\ [][ScriptNext]_vars

\* C3: after a run over N masks yolomask_format.txt holds exactly the N
\* polygon lines of that run's objects, in order, whatever the file held
\* before the run.
C3_OneLinePerObject == spc = "done" => maskFile = runPolys

\* C4: after a run over N masks BBOX_yolo.txt holds exactly N lines, the
\* bounding-box record of each object of the run, and no other line.
C4_OneRecordPerObject == spc = "done" => bboxFile = runBoxes

(***************************************************************************)
(* The two writers' normalisation on one contour inside an image.          *)
(***************************************************************************)
NormInit ==
    /\ nW \in 1..MaxImg
    /\ nH \in 1..MaxImg
    /\ nContour \in RectContours(nW, nH)
    /\ nBBox = <<>>
    /\ nPoly = <<>>
    /\ npc = "start"
    /\ KrylovIdle /\ LayerIdle /\ ScriptIdle /\ ThreshIdle /\ ToepIdle

\* the record of lines 62-71 and the line of lines 77-99 for the contour
Normalise ==
    /\ npc = "start"
    /\ nBBox' = BBoxLine(nContour, nW, nH).vals
    /\ nPoly' = PolygonLine(nContour, nW, nH).vals
    /\ npc' = "written"
    /\ UNCHANGED <<nW, nH, nContour>>
    /\ UNCHANGED <<krylovVars, layerVars, scriptVars, threshVars, toepVars>>

NormNext == Normalise

SpecNormalise == NormInit /\ [][NormNext]_vars

\* C8: for a contour inside the image the four values written after the
\* class to BBOX_yolo.txt lie in [0, 1], and in yolomask_format.txt every
\* even-position value is a pixel x over the width and every odd-position
\* value a pixel y over the height, each in [0, 1).
C8_Normalised ==
    npc = "written" =>
        /\ Len(nBBox) = 5
        /\ nBBox[1] = 0
        /\ \A p \in 2..5 : nBBox[p] >= 0 /\ nBBox[p] <= Million
        /\ Len(nPoly) = 2 * Len(nContour)
        /\ \A p \in 1..Len(nContour) :
            /\ nPoly[2 * p - 1] = Fmt6(nContour[p][1], nW)
            /\ nPoly[2 * p] = Fmt6(nContour[p][2], nH)
            /\ nPoly[2 * p - 1] >= 0 /\ nPoly[2 * p - 1] < Million
            /\ nPoly[2 * p] >= 0 /\ nPoly[2 * p] < Million

C8_Witness ==
    /\ npc = "written"
    /\ nW = 4
    /\ nH = 3
    /\ nContour = RectContour(1, 0, 3, 2)
    /\ nBBox = <<0, 625000, 500000, 750000, 1000000>>
    /\ nPoly = <<250000, 0, 250000, 666667, 750000, 666667, 750000, 0>>

(***************************************************************************)
(* The threshold step on one row.                                          *)
(***************************************************************************)
\* values of the input x_init, and of sigmoid(.), which lies in [0, 1] and
\* reaches both ends in floating point
InitValues == {RInt(-2), RInt(-1), RInt(0), RInt(1), RInt(2)}
GateValues == {RZero, <<1, 2>>, ROne}

ThreshInit ==
    /\ tGate \in [1..RowLen -> GateValues]
    /\ tInit \in [1..RowLen -> InitValues]
    /\ tRow = <<>>
    /\ tOut = <<>>
    /\ tpc = "start"
    /\ KrylovIdle /\ LayerIdle /\ ScriptIdle /\ NormIdle /\ ToepIdle

\* lines 299-303
Threshold ==
    /\ tpc = "start"
    /\ tRow' = Gated(tGate, tInit)
    /\ tOut' = ThresholdRow(Gated(tGate, tInit))
    /\ tpc' = "returned"
    /\ UNCHANGED <<tGate, tInit>>
    /\ UNCHANGED <<krylovVars, layerVars, scriptVars, normVars, toepVars>>

ThreshNext == Threshold

SpecThreshold == ThreshInit /\ [][ThreshNext]_vars

\* C9: in every row the element at the position of the row maximum is
\* returned unchanged by the threshold step, whatever the maximum's sign.
C9_PeakKept ==
    tpc = "returned" =>
        \A p \in 1..Len(tRow) :
            tRow[p] = RowMax(tRow, Len(tRow)) => tOut[p] = tRow[p]

(***************************************************************************)
(* One call of triangular_toeplitz_multiply.                               *)
(***************************************************************************)
ToepValues == {-1, 0, 1}

ToepInit ==
    /\ \E n \in 1..MaxN :
        /\ zu \in [1..n -> ToepValues]
        /\ zv \in [1..n -> ToepValues]
    /\ zOut = <<>>
    /\ zpc = "start"
    /\ KrylovIdle /\ LayerIdle /\ ScriptIdle /\ NormIdle /\ ThreshIdle

ToepCall ==
    /\ zpc = "start"
    /\ zOut' = triangular_toeplitz_multiply(zu, zv)
    /\ zpc' = "returned"
    /\ UNCHANGED <<zu, zv>>
    /\ UNCHANGED <<krylovVars, layerVars, scriptVars, normVars, threshVars>>

ToepNext == ToepCall

SpecToeplitz == ToepInit /\ [][ToepNext]_vars

\* C10: for u and v of equal length n the output is the causal product,
\* output[t] = sum over s in 0..t of u[s] * v[t - s] for 0 <= t < n, so no
\* output[t] depends on an entry of u or v after t.
C10_CausalProduct ==
    zpc = "returned" =>
        /\ Len(zOut) = Len(zu)
        /\ \A t \in 0..(Len(zu) - 1) :
            zOut[t + 1] =
                ISum([s \in 0..t |-> zu[s + 1] * zv[t - s + 1]], 0, t)

C10_Witness ==
    /\ zpc = "returned"
    /\ zu = <<1, -1, 1>>
    /\ zv = <<1, 1, -1>>
    /\ zOut = <<1, 0, -1>>

====
